---- MODULE Spec2Model ----
(***************************************************************************)
(* A model of the kube-ovn-operator VPN gateway controller                 *)
(* (VpnGwReconciler) and of the IPsec connection labeler                   *)
(* (IpsecConnReconciler).                                                  *)
(*                                                                         *)
(* The cluster is the state: the gateway resource (spec and status), its   *)
(* StatefulSet, the gateway pod, and the list of IpsecConn resources.  One *)
(* action is one whole Reconcile call; the API failures and the output of  *)
(* the refresh command are inputs of that action.  `last` records what the *)
(* most recent Reconcile call read, did and returned; every other action   *)
(* clears it.  `queue` is the work queue of the gateway controller, in the *)
(* specification that follows the events SetupWithManager registers.       *)
(*                                                                         *)
(* Go values are modelled as follows: a struct is a record, a map is a     *)
(* function, a slice is a record [nil, items] (a nil slice and an empty    *)
(* slice differ under reflect.DeepEqual), a string built by fmt.Sprintf is *)
(* the sequence of its pieces (arguments and literal separators).          *)
(***************************************************************************)
EXTENDS Integers, Sequences, FiniteSets, TLC

VARIABLES gw, sts, pod, conns, last, edits, ic, queue

vars == <<gw, sts, pod, conns, last, edits, ic, queue>>

----------------------------------------------------------------------------
(* Bounds of the model *)

\* number of user edits of the gateway spec in one behaviour
MaxEdits == 2
\* number of IpsecConn resources in the cluster at one time
MaxConns == 2

----------------------------------------------------------------------------
(* Constants of the program *)

SslVpnServer == "ssl"
IpsecVpnServer == "ipsec"
SslSecretPath == "/etc/ovpn/certs"
DhSecretPath == "/etc/ovpn/dh"
IpsecVpnSecretPath == "/etc/ipsec/certs"
SslVpnStartUpCMD == "/etc/openvpn/setup/configure.sh"
IpsecVpnStartUpCMD == "/usr/sbin/charon-systemd"
IpsecConnectionRefreshTemplate == "/connection.sh refresh "
EnableSslVpnLabel == "enable-ssl-vpn"
EnableIpsecVpnLabel == "enable-ipsec-vpn"
KubeovnIpAddressAnnotation == "ovn.kubernetes.io/ip_address"
KubeovnLogicalSwitchAnnotation == "ovn.kubernetes.io/logical_switch"
KubeovnIngressRateAnnotation == "ovn.kubernetes.io/ingress_rate"
KubeovnEgressRateAnnotation == "ovn.kubernetes.io/egress_rate"
IpSecBootPcPortKey == "bootpc"
IpSecBootPcPort == 68
IpSecIsakmpPortKey == "isakmp"
IpSecIsakmpPort == 500
IpSecNatPortKey == "nat"
IpSecNatPort == 4500
IpsecProto == "UDP"
OvpnProtoKey == "OVPN_PROTO"
OvpnPortKey == "OVPN_PORT"
OvpnCipherKey == "OVPN_CIPHER"
OvpnSubnetCidrKey == "OVPN_SUBNET_CIDR"
VpnGwLabel == "vpn-gw"
\* ctrl.Result{RequeueAfter: 3 * time.Second}
RequeueAfterSeconds == 3

SyncStateSuccess == "Success"
SyncStateError == "Error"
SyncStateErrorNoRetry == "ErrorNoRetry"

----------------------------------------------------------------------------
(* Go values *)

\* a nil slice
NilList == [nil |-> TRUE, items |-> <<>>]
\* a non-nil slice holding the sequence s
List(s) == [nil |-> FALSE, items |-> s]
\* reflect.DeepEqual on slices: a nil slice equals only a nil slice
DeepEqual(a, b) == a.nil = b.nil /\ a.items = b.items
\* an empty map
EmptyMap == [k \in {} |-> ""]
\* map b laid over map a: for key, value := range b { a[key] = value }
Overlay(a, b) ==
    [k \in (DOMAIN a) \cup (DOMAIN b) |-> IF k \in DOMAIN b THEN b[k] ELSE a[k]]
\* corev1.Affinity: three pointers
NoAffinity == [NodeAffinity |-> "nil", PodAffinity |-> "nil", PodAntiAffinity |-> "nil"]
NodeAffinityOnly == [NodeAffinity |-> "zone-a", PodAffinity |-> "nil", PodAntiAffinity |-> "nil"]

\* strconv.FormatBool
FormatBool(b) == IF b THEN "true" ELSE "false"

\* strconv.Itoa: the decimal digits of n >= 0
Digit(d) == CASE d = 0 -> "0" [] d = 1 -> "1" [] d = 2 -> "2" [] d = 3 -> "3"
              [] d = 4 -> "4" [] d = 5 -> "5" [] d = 6 -> "6" [] d = 7 -> "7"
              [] d = 8 -> "8" [] d = 9 -> "9"
RECURSIVE Itoa(_)
Itoa(n) == IF n < 10 THEN Digit(n) ELSE Itoa(n \div 10) \o Digit(n % 10)

\* strings.ToUpper on the protocol names the model uses
ToUpper(s) == CASE s = "udp" -> "UDP" [] s = "tcp" -> "TCP" [] s = "icmp" -> "ICMP"
                [] OTHER -> s

\* resource.MustParse on the quantities the model uses: the value in
\* thousandths (cpu) or in Mi (memory)
MustParse(s) == CASE s = "1" -> 1000 [] s = "2" -> 2000
                  [] s = "1Gi" -> 1024 [] s = "2Gi" -> 2048

\* strings.Split(strings.TrimSpace(v), ":") trimmed, on the selector
\* expressions the model uses
SelectorParts(v) == CASE v = "disk:ssd" -> <<"disk", "ssd">>
                      [] v = " zone : a " -> <<"zone", "a">>
                      [] v = "nocolon" -> <<"nocolon">>
                      [] OTHER -> <<v>>

----------------------------------------------------------------------------
(* The gateway resource: vpngwv1.VpnGw *)

GwName == "gw1"
GwNamespace == "ns1"

\* the zero VpnGwStatus of a gateway the controller has not written yet
ZeroStatus ==
    [Subnet |-> "", Cpu |-> "", Memory |-> "", QoSBandwidth |-> "", Ip |-> "",
     Replicas |-> 0, EnableSslVpn |-> FALSE, OvpnCipher |-> "", OvpnProto |-> "",
     OvpnPort |-> 0, OvpnSubnetCidr |-> "", SslVpnImage |-> "",
     EnableIpsecVpn |-> FALSE, IpsecVpnImage |-> "", IpsecConnections |-> NilList,
     Selector |-> NilList, Tolerations |-> NilList, Affinity |-> NoAffinity]

\* a gateway spec serving SSL VPN and IPsec VPN
BothGwSpec ==
    [Subnet |-> "subnet1", Ip |-> "10.0.0.5", Replicas |-> 1, Cpu |-> "1",
     Memory |-> "1Gi", QoSBandwidth |-> "10",
     EnableSslVpn |-> TRUE, OvpnCipher |-> "AES-256-GCM", OvpnProto |-> "udp",
     OvpnPort |-> 1149, OvpnSubnetCidr |-> "10.8.0.0/24", SslVpnImage |-> "ssl:v1",
     SslSecret |-> "ssl-secret", DhSecret |-> "dh-secret",
     EnableIpsecVpn |-> TRUE, IpsecVpnImage |-> "ipsec:v1",
     IpsecSecret |-> "ipsec-secret", IpsecConnections |-> NilList,
     Selector |-> NilList, Tolerations |-> NilList, Affinity |-> NoAffinity]
\* a gateway spec serving SSL VPN only
SslGwSpec == [BothGwSpec EXCEPT !.EnableIpsecVpn = FALSE]
\* a gateway spec serving IPsec VPN only
IpsecGwSpec == [BothGwSpec EXCEPT !.EnableSslVpn = FALSE]

\* the fields of the spec, and the values the model gives them
GwFields ==
    {"Subnet", "Ip", "Replicas", "Cpu", "Memory", "QoSBandwidth", "EnableSslVpn",
     "OvpnCipher", "OvpnProto", "OvpnPort", "OvpnSubnetCidr", "SslVpnImage",
     "SslSecret", "DhSecret", "EnableIpsecVpn", "IpsecVpnImage", "IpsecSecret",
     "Selector", "Tolerations", "Affinity"}
FieldValues(f) ==
    CASE f = "Subnet" -> {"", "subnet1", "subnet2"}
      [] f = "Ip" -> {"", "10.0.0.5"}
      [] f = "Replicas" -> {0, 1, 2}
      [] f = "Cpu" -> {"1", "2"}
      [] f = "Memory" -> {"1Gi", "2Gi"}
      [] f = "QoSBandwidth" -> {"10", "20"}
      [] f = "EnableSslVpn" -> BOOLEAN
      [] f = "OvpnCipher" -> {"", "AES-256-GCM", "AES-128-GCM"}
      [] f = "OvpnProto" -> {"", "udp", "tcp", "icmp"}
      [] f = "OvpnPort" -> {0, 80, 443, 1149}
      [] f = "OvpnSubnetCidr" -> {"", "10.8.0.0/24"}
      [] f = "SslVpnImage" -> {"", "ssl:v1", "ssl:v2"}
      [] f = "SslSecret" -> {"ssl-secret", "ssl-secret2"}
      [] f = "DhSecret" -> {"dh-secret", "dh-secret2"}
      [] f = "EnableIpsecVpn" -> BOOLEAN
      [] f = "IpsecVpnImage" -> {"ipsec:v1", "ipsec:v2"}
      [] f = "IpsecSecret" -> {"ipsec-secret", "ipsec-secret2"}
      [] f = "Selector" -> {NilList, List(<<"disk:ssd", "nocolon">>)}
      [] f = "Tolerations" -> {NilList, List(<<"dedicated=vpn:NoSchedule">>)}
      [] f = "Affinity" -> {NoAffinity, NodeAffinityOnly}

\* the edits of a running gateway the model follows: one field of each kind
\* isChanged knows (the subnet, a directly compared field, a toggle, a field
\* that depends on a toggle, a field it does not read, a deeply compared one)
EditedFields ==
    {"Subnet", "Cpu", "EnableSslVpn", "OvpnCipher", "EnableIpsecVpn",
     "IpsecVpnImage", "IpsecSecret"}
EditValues(f) ==
    CASE f = "Subnet" -> {"subnet1", "subnet2"}
      [] f = "OvpnCipher" -> {"AES-256-GCM", "AES-128-GCM"}
      [] OTHER -> FieldValues(f)

\* the gateway object: exists is false once the resource is deleted
Gateway(spec, status) ==
    [exists |-> TRUE, Name |-> GwName, Namespace |-> GwNamespace,
     Spec |-> spec, Status |-> status]

----------------------------------------------------------------------------
(* validateVpnGw: "ok" for nil, else the error *)

\* validateVpnGw without the check that the protocol is udp or tcp
validateVpnGw_noProtoCheck(g) ==
    IF g.Spec.Subnet = "" THEN "vpn gw subnet is required"
    ELSE IF g.Status.Subnet # "" /\ g.Spec.Subnet # g.Status.Subnet
        THEN "vpn gw subnet not support change"
    ELSE IF g.Spec.Replicas # 1 THEN "vpn gw replicas should only be 1 for now"
    ELSE IF g.Spec.EnableSslVpn THEN
        IF g.Spec.OvpnCipher = "" THEN "ssl vpn cipher is required"
        ELSE IF g.Spec.OvpnProto = "" THEN "ssl vpn proto is required"
        ELSE IF g.Spec.OvpnPort # 1149 /\ g.Spec.OvpnPort # 443
            THEN "ssl vpn port is required"
        ELSE IF g.Spec.OvpnSubnetCidr = "" THEN "ssl vpn subnet cidr is required"
        ELSE IF g.Spec.SslVpnImage = "" THEN "ssl vpn image is required"
        ELSE "ok"
    ELSE "ok"

\* validateVpnGw without the check against the subnet recorded in the status
validateVpnGw_noSubnetCheck(g) ==
    IF g.Spec.Subnet = "" THEN "vpn gw subnet is required"
    ELSE IF g.Spec.Replicas # 1 THEN "vpn gw replicas should only be 1 for now"
    ELSE IF g.Spec.EnableSslVpn THEN
        IF g.Spec.OvpnCipher = "" THEN "ssl vpn cipher is required"
        ELSE IF g.Spec.OvpnProto = "" THEN "ssl vpn proto is required"
        ELSE IF g.Spec.OvpnPort # 1149 /\ g.Spec.OvpnPort # 443
            THEN "ssl vpn port is required"
        ELSE IF g.Spec.OvpnSubnetCidr = "" THEN "ssl vpn subnet cidr is required"
        ELSE IF g.Spec.OvpnProto # "udp" /\ g.Spec.OvpnProto # "tcp"
            THEN "ssl vpn proto should be udp or tcp"
        ELSE IF g.Spec.SslVpnImage = "" THEN "ssl vpn image is required"
        ELSE "ok"
    ELSE "ok"

validateVpnGw(g) ==
    IF g.Spec.Subnet = "" THEN "vpn gw subnet is required"
    ELSE IF g.Status.Subnet # "" /\ g.Spec.Subnet # g.Status.Subnet
        THEN "vpn gw subnet not support change"
    ELSE IF g.Spec.Replicas # 1 THEN "vpn gw replicas should only be 1 for now"
    ELSE IF g.Spec.EnableSslVpn THEN
        IF g.Spec.OvpnCipher = "" THEN "ssl vpn cipher is required"
        ELSE IF g.Spec.OvpnProto = "" THEN "ssl vpn proto is required"
        ELSE IF g.Spec.OvpnPort # 1149 /\ g.Spec.OvpnPort # 443
            THEN "ssl vpn port is required"
        ELSE IF g.Spec.OvpnSubnetCidr = "" THEN "ssl vpn subnet cidr is required"
        ELSE IF g.Spec.OvpnProto # "udp" /\ g.Spec.OvpnProto # "tcp"
            THEN "ssl vpn proto should be udp or tcp"
        ELSE IF g.Spec.SslVpnImage = "" THEN "ssl vpn image is required"
        ELSE "ok"
    ELSE "ok"

----------------------------------------------------------------------------
(* isChanged: the gateway as mutated, and the changed flag.  Each step     *)
(* takes and gives the pair [g, changed], in the order of the code.        *)

\* one directly compared field: if gw.Status.F != gw.Spec.F { copy; changed }
SyncField(r, f) ==
    IF r.g.Status[f] # r.g.Spec[f]
    THEN [g |-> [r.g EXCEPT !.Status[f] = r.g.Spec[f]], changed |-> TRUE]
    ELSE r

\* a dependent field, copied inside the block of its toggle; no changed flag
CopyField(g, f) ==
    IF g.Status[f] # g.Spec[f] THEN [g EXCEPT !.Status[f] = g.Spec[f]] ELSE g

isChangedSubnet(r) ==
    IF r.g.Status.Subnet = "" /\ r.g.Spec.Subnet # ""
    THEN [g |-> [r.g EXCEPT !.Status.Subnet = r.g.Spec.Subnet], changed |-> TRUE]
    ELSE r

isChangedSsl(r) ==
    IF r.g.Status.EnableSslVpn # r.g.Spec.EnableSslVpn
    THEN LET g1 == [r.g EXCEPT !.Status.EnableSslVpn = r.g.Spec.EnableSslVpn]
             g2 == CopyField(g1, "OvpnCipher")
             g3 == CopyField(g2, "OvpnProto")
             g4 == CopyField(g3, "OvpnPort")
             g5 == CopyField(g4, "OvpnSubnetCidr")
             g6 == CopyField(g5, "SslVpnImage")
         IN  [g |-> g6, changed |-> TRUE]
    ELSE r

isChangedIpsec(r) ==
    IF r.g.Status.EnableIpsecVpn # r.g.Spec.EnableIpsecVpn
    THEN LET g1 == [r.g EXCEPT !.Status.EnableIpsecVpn = r.g.Spec.EnableIpsecVpn]
             g2 == CopyField(g1, "IpsecVpnImage")
         IN  [g |-> g2, changed |-> TRUE]
    ELSE r

\* the connection block setting changed only when the list differs
isChangedConnections_onlyOnDiff(r, ipsecConnections) ==
    IF /\ r.g.Status.EnableIpsecVpn /\ ~ipsecConnections.nil
       /\ ~DeepEqual(r.g.Spec.IpsecConnections, ipsecConnections)
    THEN [g |-> [r.g EXCEPT !.Spec.IpsecConnections = ipsecConnections,
                            !.Status.IpsecConnections = ipsecConnections],
          changed |-> TRUE]
    ELSE r

isChangedConnections(r, ipsecConnections) ==
    IF r.g.Status.EnableIpsecVpn /\ ~ipsecConnections.nil
    THEN [g |-> IF ~DeepEqual(r.g.Spec.IpsecConnections, ipsecConnections)
                THEN [r.g EXCEPT !.Spec.IpsecConnections = ipsecConnections,
                                 !.Status.IpsecConnections = ipsecConnections]
                ELSE r.g,
          changed |-> TRUE]
    ELSE r

\* reflect.DeepEqual on Selector, Tolerations (slices) and Affinity (a struct)
SyncDeep(r, f) ==
    IF r.g.Spec[f] # r.g.Status[f]
    THEN [g |-> [r.g EXCEPT !.Status[f] = r.g.Spec[f]], changed |-> TRUE]
    ELSE r

isChanged(g, ipsecConnections) ==
    LET r0 == [g |-> g, changed |-> FALSE]
        r1 == isChangedSubnet(r0)
        r2 == SyncField(r1, "Cpu")
        r3 == SyncField(r2, "Memory")
        r4 == SyncField(r3, "QoSBandwidth")
        r5 == SyncField(r4, "Ip")
        r6 == SyncField(r5, "Replicas")
        r7 == isChangedSsl(r6)
        r8 == isChangedIpsec(r7)
        r9 == isChangedConnections(r8, ipsecConnections)
        r10 == SyncDeep(r9, "Selector")
        r11 == SyncDeep(r10, "Tolerations")
        r12 == SyncDeep(r11, "Affinity")
    IN  r12

----------------------------------------------------------------------------
(* statefulSetForVpnGw: the workload derived from the gateway spec and the *)
(* previous StatefulSet.  A StatefulSet in the store is [exists, obj];     *)
(* exists = FALSE stands for "not found" and for a nil oldSts.             *)

NoSts == [exists |-> FALSE, obj |-> EmptyMap]

labelsForVpnGw(g) ==
    (EnableSslVpnLabel :> FormatBool(g.Spec.EnableSslVpn))
    @@ (EnableIpsecVpnLabel :> FormatBool(g.Spec.EnableIpsecVpn))

\* corev1.ResourceList{cpu: MustParse(Cpu), memory: MustParse(Memory)}
ResourceList(g) == [cpu |-> MustParse(g.Spec.Cpu), memory |-> MustParse(g.Spec.Memory)]

SecretVolume(name) == [Name |-> name, SecretName |-> name, Optional |-> TRUE]

sslContainer(g) ==
    [Name |-> SslVpnServer,
     Image |-> g.Spec.SslVpnImage,
     VolumeMounts |->
        <<[Name |-> g.Spec.SslSecret, MountPath |-> SslSecretPath, ReadOnly |-> TRUE],
          [Name |-> g.Spec.DhSecret, MountPath |-> DhSecretPath, ReadOnly |-> TRUE]>>,
     Requests |-> ResourceList(g),
     Limits |-> ResourceList(g),
     Command |-> <<SslVpnStartUpCMD>>,
     Ports |-> <<[ContainerPort |-> g.Spec.OvpnPort, Name |-> SslVpnServer,
                  Protocol |-> ToUpper(g.Spec.OvpnProto)]>>,
     Env |-> <<[Name |-> OvpnProtoKey, Value |-> g.Spec.OvpnProto],
               [Name |-> OvpnPortKey, Value |-> Itoa(g.Spec.OvpnPort)],
               [Name |-> OvpnCipherKey, Value |-> g.Spec.OvpnCipher],
               [Name |-> OvpnSubnetCidrKey, Value |-> g.Spec.OvpnSubnetCidr]>>,
     ImagePullPolicy |-> "IfNotPresent",
     Privileged |-> TRUE,
     AllowPrivilegeEscalation |-> TRUE]

ipsecContainer(g) ==
    [Name |-> IpsecVpnServer,
     Image |-> g.Spec.IpsecVpnImage,
     VolumeMounts |->
        <<[Name |-> g.Spec.IpsecSecret, MountPath |-> IpsecVpnSecretPath,
           ReadOnly |-> TRUE]>>,
     Requests |-> ResourceList(g),
     Limits |-> ResourceList(g),
     Command |-> <<IpsecVpnStartUpCMD>>,
     Ports |-> <<[ContainerPort |-> IpSecIsakmpPort, Name |-> IpSecIsakmpPortKey,
                  Protocol |-> IpsecProto],
                 [ContainerPort |-> IpSecBootPcPort, Name |-> IpSecBootPcPortKey,
                  Protocol |-> IpsecProto],
                 [ContainerPort |-> IpSecNatPort, Name |-> IpSecNatPortKey,
                  Protocol |-> IpsecProto]>>,
     Env |-> <<>>,
     ImagePullPolicy |-> "IfNotPresent",
     Privileged |-> TRUE,
     AllowPrivilegeEscalation |-> TRUE]

\* the node selector map: the expressions with exactly two parts, the later
\* expression winning on a repeated key
RECURSIVE nodeSelectorOf(_)
nodeSelectorOf(exprs) ==
    IF exprs = <<>> THEN EmptyMap
    ELSE LET n == Len(exprs)
             parts == SelectorParts(exprs[n])
             rest == nodeSelectorOf(SubSeq(exprs, 1, n - 1))
         IN  IF Len(parts) # 2 THEN rest
             ELSE Overlay(rest, parts[1] :> parts[2])

statefulSetForVpnGw(g, oldSts) ==
    LET labels == labelsForVpnGw(g)
        newPodAnnotations ==
            IF oldSts.exists /\ DOMAIN oldSts.obj.Annotations # {}
            THEN oldSts.obj.Annotations
            ELSE EmptyMap
        podAnnotations ==
            (KubeovnLogicalSwitchAnnotation :> g.Spec.Subnet)
            @@ (KubeovnIpAddressAnnotation :> g.Spec.Ip)
            @@ (KubeovnIngressRateAnnotation :> g.Spec.QoSBandwidth)
            @@ (KubeovnEgressRateAnnotation :> g.Spec.QoSBandwidth)
        sslContainers == IF g.Spec.EnableSslVpn THEN <<sslContainer(g)>> ELSE <<>>
        sslVolumes ==
            IF g.Spec.EnableSslVpn
            THEN <<SecretVolume(g.Spec.SslSecret), SecretVolume(g.Spec.DhSecret)>>
            ELSE <<>>
        ipsecContainers == IF g.Spec.EnableIpsecVpn THEN <<ipsecContainer(g)>> ELSE <<>>
        ipsecVolumes ==
            IF g.Spec.EnableIpsecVpn THEN <<SecretVolume(g.Spec.IpsecSecret)>> ELSE <<>>
    IN  [Name |-> g.Name,
         Namespace |-> g.Namespace,
         Labels |-> labels,
         Annotations |-> EmptyMap,
         Replicas |-> g.Spec.Replicas,
         MatchLabels |-> labels,
         TemplateLabels |-> labels,
         TemplateAnnotations |-> Overlay(newPodAnnotations, podAnnotations),
         Containers |-> sslContainers \o ipsecContainers,
         Volumes |-> sslVolumes \o ipsecVolumes,
         UpdateStrategy |-> "RollingUpdate",
         NodeSelector |->
            IF Len(g.Spec.Selector.items) > 0
            THEN nodeSelectorOf(g.Spec.Selector.items) ELSE EmptyMap,
         Tolerations |->
            IF Len(g.Spec.Tolerations.items) > 0 THEN g.Spec.Tolerations ELSE NilList,
         Affinity |->
            IF \/ g.Spec.Affinity.NodeAffinity # "nil"
               \/ g.Spec.Affinity.PodAffinity # "nil"
               \/ g.Spec.Affinity.PodAntiAffinity # "nil"
            THEN [nil |-> FALSE, val |-> g.Spec.Affinity]
            ELSE [nil |-> TRUE, val |-> NoAffinity],
         Owner |-> g.Name]

----------------------------------------------------------------------------
(* The connection resources: vpngwv1.IpsecConn *)

\* the spec fields fmt.Sprintf writes after the name, in its order
RecordFields ==
    <<"Auth", "IkeVersion", "Proposals", "LocalCN", "LocalPublicIp",
      "LocalPrivateCidrs", "RemoteCN", "RemotePublicIp", "RemotePrivateCidrs">>

\* getIpsecConnections: r.List with client.MatchingLabels{VpnGwLabel: gw.Name}
\* and no namespace option, in the order of the resource list
MatchingLabels(c, g) == VpnGwLabel \in DOMAIN c.Labels /\ c.Labels[VpnGwLabel] = g.Name
getIpsecConnections(cs, g) == SelectSeq(cs, LAMBDA c : MatchingLabels(c, g))

\* the owner check testing the empty owner only
InvalidOwner_emptyOnly(c, g) == c.Spec.VpnGw = ""
\* the check that skips a listed connection: continue
InvalidOwner(c, g) == c.Spec.VpnGw = "" \/ c.Spec.VpnGw # g.Name

\* the check on the required fields: logs "ignore invalid ipsec connection",
\* and has no continue
EmptyRequired(c) == \E i \in 1..Len(RecordFields) : c.Spec[RecordFields[i]] = ""

\* fmt.Sprintf("%s %s %s %s %s %s %s %s %s %s,", v.Name, v.Spec.Auth, ...):
\* the pieces of the string, ten arguments, nine spaces and the comma
SprintfRecord(c) ==
    <<c.Name, " ", c.Spec.Auth, " ", c.Spec.IkeVersion, " ", c.Spec.Proposals, " ",
      c.Spec.LocalCN, " ", c.Spec.LocalPublicIp, " ", c.Spec.LocalPrivateCidrs, " ",
      c.Spec.RemoteCN, " ", c.Spec.RemotePublicIp, " ", c.Spec.RemotePrivateCidrs,
      ",">>

\* the loop putting each record before the ones already written
RECURSIVE FormatConnections_reversed(_, _)
FormatConnections_reversed(res, g) ==
    IF res = <<>> THEN <<>>
    ELSE LET n == Len(res)
             before == FormatConnections_reversed(SubSeq(res, 1, n - 1), g)
         IN  IF InvalidOwner(res[n], g) THEN before
             ELSE SprintfRecord(res[n]) \o before

\* the loop over res: connections += ... for every item the loop does not skip
RECURSIVE FormatConnections(_, _)
FormatConnections(res, g) ==
    IF res = <<>> THEN <<>>
    ELSE LET n == Len(res)
             before == FormatConnections(SubSeq(res, 1, n - 1), g)
         IN  IF InvalidOwner(res[n], g) THEN before
             ELSE before \o SprintfRecord(res[n])

\* for _, conn := range res { conns = append(conns, conn.Name) }
ConnNames(res) == [i \in 1..Len(res) |-> res[i].Name]

----------------------------------------------------------------------------
(* handleAddOrUpdateVpnGw.  Its inputs: the gateway g as fetched, the      *)
(* StatefulSet s and the connections cs in the store, the phase p of the   *)
(* pod <gateway>-0, the API call that fails in this invocation (fail), and *)
(* what ExecuteCommandInContainer returns (exec).  Its result: the sync    *)
(* state, what the store holds afterwards, and the calls it issued.        *)

PodPhases == {"Absent", "Pending", "Running"}
FailPoints ==
    {"none", "getGw", "getSts", "create", "update", "list", "getPod", "status"}
\* err: the error returned; stdout, stderr: whether the stream is non-empty
ExecOutcomes == [err : BOOLEAN, stdout : BOOLEAN, stderr : BOOLEAN]
ExecSilent == [err |-> FALSE, stdout |-> FALSE, stderr |-> FALSE]
\* what one invocation meets: the call that fails, if any, and the outcome of
\* the refresh command.  The handler returns at its first failure, so an
\* invocation meets at most one.
Environments ==
    {[fail |-> f, exec |-> ExecSilent] : f \in FailPoints}
    \cup {[fail |-> "none", exec |-> e] : e \in ExecOutcomes}

Start(g, s) ==
    [state |-> "", err |-> "nil", sts |-> s, status |-> g.Status,
     created |-> FALSE, updated |-> FALSE, slept |-> FALSE, listed |-> FALSE,
     aggregated |-> FALSE, podGot |-> FALSE, execed |-> FALSE,
     statusWritten |-> FALSE, podErr |-> FALSE, podSeen |-> "", exec |-> ExecSilent,
     res |-> <<>>, connections |-> <<>>, cmd |-> <<>>, conns |-> NilList]

\* return SyncStateError, err
Fail(o, e) == [o EXCEPT !.state = SyncStateError, !.err = e]

\* newGw = gw.DeepCopy(); if r.isChanged(newGw, conns) { r.Status().Update(newGw) }
\* The status subresource persists newGw.Status only.
finishStatus(g, o, fail) ==
    LET r == isChanged(g, o.conns)
    IN  IF r.changed
        THEN IF fail = "status"
             THEN Fail([o EXCEPT !.statusWritten = TRUE], "failed to update vpn gw status")
             ELSE [o EXCEPT !.statusWritten = TRUE, !.status = r.g.Status,
                            !.state = SyncStateSuccess]
        ELSE [o EXCEPT !.state = SyncStateSuccess]

\* the refresh without "else if pod.Status.Phase != Running": any pod found
\* is good enough
refreshConnections_noPhaseCheck(g, o, p, fail, exec) ==
    IF o.connections # <<>>
    THEN LET podErr == fail = "getPod" \/ p = "Absent"
             o1 == [o EXCEPT !.podGot = TRUE, !.podErr = podErr,
                             !.podSeen = IF podErr THEN "" ELSE p]
         IN  IF o1.podErr
             THEN Fail(o1, "failed to get vpn gw pod")
             ELSE LET o2 == [o1 EXCEPT !.execed = TRUE, !.exec = exec,
                                       !.cmd = <<IpsecConnectionRefreshTemplate>>
                                               \o o.connections]
                  IN  IF exec.err
                      THEN Fail(o2, "failed to ExecuteCommandInContainer")
                      ELSE finishStatus(g, [o2 EXCEPT !.conns = List(ConnNames(o.res))],
                                        fail)
    ELSE finishStatus(g, o, fail)

\* the refresh without "if connections != \"\"": the pod is looked up and
\* the command run whatever the string
refreshConnections_alwaysPod(g, o, p, fail, exec) ==
    LET podErr == fail = "getPod" \/ p = "Absent"
        o1 == [o EXCEPT !.podGot = TRUE, !.podErr = podErr,
                        !.podSeen = IF podErr THEN "" ELSE p]
    IN  IF o1.podErr
        THEN Fail(o1, "failed to get vpn gw pod")
        ELSE IF o1.podSeen # "Running"
        THEN Fail(o1, "pod is not running now")
        ELSE LET o2 == [o1 EXCEPT !.execed = TRUE, !.exec = exec,
                                  !.cmd = <<IpsecConnectionRefreshTemplate>>
                                          \o o.connections]
             IN  IF exec.err
                 THEN Fail(o2, "failed to ExecuteCommandInContainer")
                 ELSE finishStatus(g, [o2 EXCEPT !.conns = List(ConnNames(o.res))],
                                   fail)

\* if connections != "" { get the pod, run the refresh command in it }
\* podErr and podSeen are what r.Get gave for the pod, exec what
\* ExecuteCommandInContainer returned
refreshConnections(g, o, p, fail, exec) ==
    IF o.connections # <<>>
    THEN LET podErr == fail = "getPod" \/ p = "Absent"
             o1 == [o EXCEPT !.podGot = TRUE, !.podErr = podErr,
                             !.podSeen = IF podErr THEN "" ELSE p]
         IN  IF o1.podErr
             THEN Fail(o1, "failed to get vpn gw pod")
             ELSE IF o1.podSeen # "Running"
             THEN Fail(o1, "pod is not running now")
             ELSE LET o2 == [o1 EXCEPT !.execed = TRUE, !.exec = exec,
                                       !.cmd = <<IpsecConnectionRefreshTemplate>>
                                               \o o.connections]
                  IN  IF exec.err
                      THEN Fail(o2, "failed to ExecuteCommandInContainer")
                      ELSE finishStatus(g, [o2 EXCEPT !.conns = List(ConnNames(o.res))],
                                        fail)
    ELSE finishStatus(g, o, fail)

\* the aggregation without "if gw.Spec.EnableIpsecVpn"
aggregateConnections_noToggleCheck(g, o, cs, p, fail, exec) ==
    IF fail = "list"
    THEN Fail([o EXCEPT !.listed = TRUE], "failed to list ipsec connections")
    ELSE LET res == getIpsecConnections(cs, g)
         IN  refreshConnections(g,
                 [o EXCEPT !.listed = TRUE, !.aggregated = TRUE, !.res = res,
                           !.connections = FormatConnections(res, g)],
                 p, fail, exec)

\* if gw.Spec.EnableIpsecVpn { list and format the connections, refresh }
aggregateConnections(g, o, cs, p, fail, exec) ==
    IF g.Spec.EnableIpsecVpn
    THEN IF fail = "list"
         THEN Fail([o EXCEPT !.listed = TRUE], "failed to list ipsec connections")
         ELSE LET res == getIpsecConnections(cs, g)
              IN  refreshConnections(g,
                      [o EXCEPT !.listed = TRUE, !.aggregated = TRUE, !.res = res,
                                !.connections = FormatConnections(res, g)],
                      p, fail, exec)
    ELSE finishStatus(g, o, fail)

handleAddOrUpdateVpnGw(g, s, cs, p, fail, exec) ==
    LET o == Start(g, s)
    IN  IF validateVpnGw(g) # "ok"
        THEN [o EXCEPT !.state = SyncStateErrorNoRetry, !.err = validateVpnGw(g)]
        ELSE IF fail = "getSts"
        THEN Fail(o, "failed to get old statefulset")
        ELSE IF ~s.exists
        THEN IF fail = "create"
             THEN Fail([o EXCEPT !.created = TRUE], "failed to create the new statefulset")
             ELSE aggregateConnections(g,
                      [o EXCEPT !.created = TRUE, !.slept = TRUE,
                                !.sts = [exists |-> TRUE,
                                         obj |-> statefulSetForVpnGw(g, NoSts)]],
                      cs, p, fail, exec)
        ELSE IF isChanged(g, NilList).changed
        THEN IF fail = "update"
             THEN Fail([o EXCEPT !.updated = TRUE], "failed to update the statefulset")
             ELSE aggregateConnections(g,
                      [o EXCEPT !.updated = TRUE, !.slept = TRUE,
                                !.sts = [exists |-> TRUE,
                                         obj |-> statefulSetForVpnGw(g, s)]],
                      cs, p, fail, exec)
        ELSE aggregateConnections(g, o, cs, p, fail, exec)

----------------------------------------------------------------------------
(* VpnGwReconciler.Reconcile *)

\* ctrl.Result and error returned for a sync state
NoRequeue == [requeueAfter |-> 0, err |-> "nil"]
\* Reconcile with the SyncStateError case returning ctrl.Result{}, nil
vpnGwResult_noRetry(state) == NoRequeue
vpnGwResult(state) ==
    CASE state = SyncStateError ->
            [requeueAfter |-> RequeueAfterSeconds, err |-> "errRetry"]
      [] state = SyncStateErrorNoRetry -> NoRequeue
      [] OTHER -> NoRequeue

NoLast == [op |-> "none"]

\* Reconcile without "if gw == nil { return }": the handler runs on what is
\* left of a gateway that is gone
vpnGwReconcile_noNilCheck(g, s, cs, p, fail, exec) ==
    LET out == handleAddOrUpdateVpnGw(g, s, cs, p, fail, exec)
    IN  [op |-> "VpnGw", found |-> g.exists, gw |-> g, sts |-> s, ran |-> TRUE,
         out |-> out, result |-> vpnGwResult(out.state)]

\* what Reconcile returns, and the handler's result when it ran; gw and sts
\* are the gateway and the StatefulSet the store held when it began
vpnGwReconcile(g, s, cs, p, fail, exec) ==
    IF fail = "getGw"
    THEN [op |-> "VpnGw", found |-> FALSE, gw |-> g, sts |-> s, ran |-> FALSE,
          out |-> Start(g, s), result |-> [requeueAfter |-> 0, err |-> "getError"]]
    ELSE IF ~g.exists
    THEN [op |-> "VpnGw", found |-> FALSE, gw |-> g, sts |-> s, ran |-> FALSE,
          out |-> Start(g, s), result |-> NoRequeue]
    ELSE LET out == handleAddOrUpdateVpnGw(g, s, cs, p, fail, exec)
         IN  [op |-> "VpnGw", found |-> TRUE, gw |-> g, sts |-> s, ran |-> TRUE,
              out |-> out, result |-> vpnGwResult(out.state)]

\* the pod the handler can find: after it creates the StatefulSet it sleeps
\* five seconds, in which the platform may start the pod
PodAfterSleep(s, p) == IF s.exists THEN {p} ELSE PodPhases

\* One Reconcile call of the gateway, on the cluster as it is.
vpnGwStep(env, p) ==
    /\ last' = vpnGwReconcile(gw, sts, conns, p, env.fail, env.exec)
    /\ sts' = last'.out.sts
    /\ gw' = [gw EXCEPT !.Status = last'.out.status]
    /\ pod' = IF sts'.exists THEN p ELSE pod
    /\ UNCHANGED <<conns, edits, ic>>

ReconcileVpnGw ==
    \E env \in Environments : \E p \in PodAfterSleep(sts, pod) :
        vpnGwStep(env, p) /\ UNCHANGED queue

----------------------------------------------------------------------------
(* The users and the platform *)

\* a user edits one field of the gateway spec
EditGw ==
    \E f \in EditedFields : \E v \in EditValues(f) :
        /\ gw.exists
        /\ edits < MaxEdits
        /\ gw.Spec[f] # v
        /\ gw' = [gw EXCEPT !.Spec[f] = v]
        /\ edits' = edits + 1
        /\ last' = NoLast
        /\ UNCHANGED <<sts, pod, conns, ic, queue>>

\* a user deletes the gateway; its StatefulSet and pod go with it (ownership)
DeleteGw ==
    /\ gw.exists
    /\ gw' = [gw EXCEPT !.exists = FALSE]
    /\ sts' = NoSts
    /\ pod' = "Absent"
    /\ last' = NoLast
    /\ UNCHANGED <<conns, edits, ic, queue>>

\* the StatefulSet controller and the kubelet move the pod
PodPhase ==
    \E p \in PodPhases :
        /\ sts.exists
        /\ p # pod
        /\ pod' = p
        /\ last' = NoLast
        /\ UNCHANGED <<gw, sts, conns, edits, ic, queue>>

----------------------------------------------------------------------------
(* IpsecConnReconciler: the labeler *)

\* validateIpsecConnection: "ok" for nil, else the error.  The checks of the
\* IKE version and of the auth mode log and return nothing.
\* validateIpsecConnection without the check of the owning gateway
validateIpsecConnection_noOwnerCheck(c) ==
    IF c.Spec.RemotePublicIp = "" THEN "ipsecConn remote public ip is required"
    ELSE IF c.Spec.RemotePrivateCidrs = ""
        THEN "ipsecConn remote private cidrs is required"
    ELSE IF c.Spec.LocalPrivateCidrs = ""
        THEN "ipsecConn local private cidrs is required"
    ELSE "ok"

\* validateIpsecConnection returning the errors it only logs
validateIpsecConnection_ikeBlocks(c) ==
    IF c.Spec.VpnGw = "" THEN "ipsecConn vpn gw is required"
    ELSE IF c.Spec.IkeVersion \notin {"0", "1", "2"}
        THEN "ipsec connection spec ike version is invalid"
    ELSE IF c.Spec.Auth \notin {"psk", "pubkey"}
        THEN "ipsec connection spec auth is invalid"
    ELSE IF c.Spec.RemotePublicIp = "" THEN "ipsecConn remote public ip is required"
    ELSE IF c.Spec.RemotePrivateCidrs = ""
        THEN "ipsecConn remote private cidrs is required"
    ELSE IF c.Spec.LocalPrivateCidrs = ""
        THEN "ipsecConn local private cidrs is required"
    ELSE "ok"

\* the error validateIpsecConnection returns, "ok" for nil; an IKE version
\* or an auth mode it does not know is logged and no error
validateIpsecConnection(c) ==
    IF c.Spec.VpnGw = "" THEN "ipsecConn vpn gw is required"
    ELSE IF c.Spec.RemotePublicIp = "" THEN "ipsecConn remote public ip is required"
    ELSE IF c.Spec.RemotePrivateCidrs = ""
        THEN "ipsecConn remote private cidrs is required"
    ELSE IF c.Spec.LocalPrivateCidrs = ""
        THEN "ipsecConn local private cidrs is required"
    ELSE "ok"

\* labelsForIpsecConnection naming the one gateway
labelsForIpsecConnection_fixedGw(c) == VpnGwLabel :> GwName

labelsForIpsecConnection(c) == VpnGwLabel :> c.Spec.VpnGw

\* client.MergeFrom(ipsecConn): the merge patch that turns the labels read
\* into the labels of newConn: the keys to set and the keys to delete
MergeFromLabels(old, new) ==
    [set |-> [k \in {j \in DOMAIN new : j \notin DOMAIN old \/ old[j] # new[j]}
                |-> new[k]],
     del |-> (DOMAIN old) \ (DOMAIN new)]
\* the server applies the patch to the labels it holds
ApplyLabelPatch(cur, patch) ==
    [k \in ((DOMAIN cur) \ patch.del) \cup (DOMAIN patch.set)
        |-> IF k \in DOMAIN patch.set THEN patch.set[k] ELSE cur[k]]

ConnFailPoints == {"none", "getConn", "patch"}

\* the sync state, the connection the store holds afterwards (stored is the
\* connection the store holds when the patch arrives), whether Patch was called
handleAddOrUpdateIpsecConnection(c, stored, fail) ==
    IF validateIpsecConnection(c) # "ok"
    THEN [state |-> SyncStateErrorNoRetry, conn |-> stored, patched |-> FALSE]
    ELSE LET newLabels == labelsForIpsecConnection(c)
             patch == MergeFromLabels(c.Labels, newLabels)
         IN  IF fail = "patch"
             THEN [state |-> SyncStateError, conn |-> stored, patched |-> TRUE]
             ELSE [state |-> SyncStateSuccess,
                   conn |-> [stored EXCEPT !.Labels = ApplyLabelPatch(stored.Labels, patch)],
                   patched |-> TRUE]

ipsecConnResult(state) ==
    CASE state = SyncStateError -> [requeueAfter |-> 0, err |-> "errRetry"]
      [] state = SyncStateErrorNoRetry -> NoRequeue
      [] OTHER -> NoRequeue

\* IpsecConnReconciler.Reconcile on the i-th connection of the store; i = 0
\* is a request for a connection that is gone
ipsecConnReconcile(cs, i, fail) ==
    IF fail = "getConn"
    THEN [op |-> "IpsecConn", found |-> FALSE, index |-> i, ran |-> FALSE,
          out |-> [state |-> "", patched |-> FALSE],
          result |-> [requeueAfter |-> 0, err |-> "getError"]]
    ELSE IF i = 0
    THEN [op |-> "IpsecConn", found |-> FALSE, index |-> i, ran |-> FALSE,
          out |-> [state |-> "", patched |-> FALSE], result |-> NoRequeue]
    ELSE LET out == handleAddOrUpdateIpsecConnection(cs[i], cs[i], fail)
         IN  [op |-> "IpsecConn", found |-> TRUE, index |-> i, ran |-> TRUE,
              read |-> cs[i], out |-> out, result |-> ipsecConnResult(out.state)]

ipsecConnStep(i, fail) ==
    /\ last' = ipsecConnReconcile(conns, i, fail)
    /\ conns' = IF last'.ran THEN [conns EXCEPT ![i] = last'.out.conn] ELSE conns
    /\ UNCHANGED <<gw, sts, pod, edits, ic>>

ReconcileIpsecConn ==
    \E i \in 0..Len(conns), fail \in ConnFailPoints :
        ipsecConnStep(i, fail) /\ UNCHANGED queue

----------------------------------------------------------------------------
(* The connections users create *)

\* OwnerReferences: the names of the gateways that are controller owners of
\* the connection; nothing in the program sets one
Conn(name, ns, labels, vpnGw) ==
    [Name |-> name, Namespace |-> ns, Labels |-> labels, OwnerReferences |-> {},
     Spec |-> [VpnGw |-> vpnGw, Auth |-> "psk", IkeVersion |-> "2",
               Proposals |-> "default", LocalCN |-> "local.cn",
               LocalPublicIp |-> "1.1.1.1", LocalPrivateCidrs |-> "10.1.0.0/16",
               RemoteCN |-> "remote.cn", RemotePublicIp |-> "2.2.2.2",
               RemotePrivateCidrs |-> "10.2.0.0/16"]]

OtherGw == "gw2"
Labelled == VpnGwLabel :> GwName

\* a connection of the gateway, labelled
GoodConn == Conn("good", GwNamespace, Labelled, GwName)
\* its label says gw1, its spec another gateway
DriftedConn == Conn("drifted", GwNamespace, Labelled, OtherGw)
\* its label says gw1, its spec names no gateway
NoOwnerConn == Conn("noowner", GwNamespace, Labelled, "")
\* a connection of the gateway with an empty required field
NoLocalCNConn == [Conn("nolocalcn", GwNamespace, Labelled, GwName) EXCEPT !.Spec.LocalCN = ""]
\* a connection of the gateway the labeler has not labelled yet
NewConn == Conn("new", GwNamespace, EmptyMap, GwName)

\* the connections users create, in the order of their keys (namespace/name),
\* which is the order the API server lists them in
ConnCatalog == <<DriftedConn, GoodConn, NewConn, NoLocalCNConn, NoOwnerConn>>
\* a labelled connection of the gateway to which its user gave the gateway as
\* controller owner
OwnedConn ==
    [Conn("owned", GwNamespace, Labelled, GwName) EXCEPT !.OwnerReferences = {GwName}]
\* the keys of all connections of the model, in order
ConnKeys == [k \in 1..Len(ConnCatalog) |-> ConnCatalog[k].Name] \o <<OwnedConn.Name>>

ConnNamesIn(cs) == {cs[i].Name : i \in 1..Len(cs)}
Rank(name) == CHOOSE k \in 1..Len(ConnKeys) : ConnKeys[k] = name
\* the store with c added, in key order
InsertConn(cs, c) ==
    LET k == Cardinality({i \in 1..Len(cs) : Rank(cs[i].Name) < Rank(c.Name)})
    IN  SubSeq(cs, 1, k) \o <<c>> \o SubSeq(cs, k + 1, Len(cs))

CreateConn ==
    \E k \in 1..Len(ConnCatalog) :
        /\ Len(conns) < MaxConns
        /\ ConnCatalog[k].Name \notin ConnNamesIn(conns)
        /\ conns' = InsertConn(conns, ConnCatalog[k])
        /\ last' = NoLast
        /\ UNCHANGED <<gw, sts, pod, edits, ic, queue>>

DeleteConn ==
    \E i \in 1..Len(conns) :
        /\ conns' = SubSeq(conns, 1, i - 1) \o SubSeq(conns, i + 1, Len(conns))
        /\ last' = NoLast
        /\ UNCHANGED <<gw, sts, pod, edits, ic, queue>>

----------------------------------------------------------------------------
(* The gateway's life: a user has created it, edits it, deletes it *)

IdleIc == [phase |-> "idle"]
\* the work queue of the gateway controller: the keys waiting for a Reconcile,
\* and the connections an event of which no Reconcile of the gateway has
\* followed yet
NoQueue == [keys |-> {}, events |-> {}]

Init ==
    /\ gw = Gateway(BothGwSpec, ZeroStatus)
    /\ sts = NoSts
    /\ pod = "Absent"
    /\ conns = <<GoodConn>>
    /\ last = NoLast
    /\ edits = 0
    /\ ic = IdleIc
    /\ queue = NoQueue

Next == EditGw \/ DeleteGw \/ PodPhase \/ ReconcileVpnGw

Spec == Init /\ [][Next]_vars

----------------------------------------------------------------------------
(* The connections' life: beside a running IPsec gateway (reconciled once   *)
(* with no connection, its pod running), users create and delete            *)
(* connections, the labeler labels them, the gateway aggregates them.       *)

Reconciled(spec) ==
    handleAddOrUpdateVpnGw(Gateway(spec, ZeroStatus), NoSts, <<>>, "Absent", "none",
                           ExecSilent)

\* the gateway as reconciled, or with its subnet edited since
InitAgg ==
    /\ gw \in {Gateway(IpsecGwSpec, Reconciled(IpsecGwSpec).status),
               Gateway([IpsecGwSpec EXCEPT !.Subnet = "subnet2"],
                       Reconciled(IpsecGwSpec).status)}
    /\ sts = Reconciled(IpsecGwSpec).sts
    /\ pod = "Running"
    /\ conns = <<>>
    /\ last = NoLast
    /\ edits = 0
    /\ ic = IdleIc
    /\ queue = NoQueue

NextAgg == CreateConn \/ DeleteConn \/ ReconcileIpsecConn \/ ReconcileVpnGw

SpecAgg == InitAgg /\ [][NextAgg]_vars

----------------------------------------------------------------------------
(* The gateways users write: one Reconcile call, and those that follow it, *)
(* on a gateway whose spec holds any of the values the validator reads,    *)
(* new or reconciled before with subnet1.                                  *)

ValidatedSpecs ==
    {[SslGwSpec EXCEPT !.Subnet = subnet, !.Ip = ip, !.Replicas = replicas,
                       !.EnableSslVpn = ssl, !.OvpnCipher = cipher,
                       !.OvpnProto = proto, !.OvpnPort = port,
                       !.OvpnSubnetCidr = cidr, !.SslVpnImage = image] :
        subnet \in FieldValues("Subnet"), ip \in FieldValues("Ip"),
        replicas \in FieldValues("Replicas"), ssl \in BOOLEAN,
        cipher \in {"", "AES-256-GCM"}, proto \in FieldValues("OvpnProto"),
        port \in FieldValues("OvpnPort"), cidr \in FieldValues("OvpnSubnetCidr"),
        image \in {"", "ssl:v1"}}

InitValidate ==
    /\ gw \in {Gateway(spec, status) :
                spec \in ValidatedSpecs,
                status \in {ZeroStatus, Reconciled(SslGwSpec).status}}
    /\ sts = NoSts
    /\ pod = "Absent"
    /\ conns = <<>>
    /\ last = NoLast
    /\ edits = 0
    /\ ic = IdleIc
    /\ queue = NoQueue

NextValidate == ReconcileVpnGw

SpecValidate == InitValidate /\ [][NextValidate]_vars

----------------------------------------------------------------------------
(* isChanged called twice on one gateway object: ic holds the gateway and  *)
(* the connection list passed, and what each call gave.                    *)

\* a spec, and the spec with one field given another of its values
Variants(base) ==
    UNION {{[base EXCEPT ![f] = v] : v \in FieldValues(f)} : f \in GwFields}
IsChangedSpecs == UNION {Variants(base) : base \in {BothGwSpec, SslGwSpec, IpsecGwSpec}}
\* the status the controller has written for a spec, from the zero status
StatusFor(spec) == isChanged(Gateway(spec, ZeroStatus), NilList).g.Status
IsChangedStatuses == {ZeroStatus} \cup {StatusFor(spec) : spec \in IsChangedSpecs}
\* ipsecConnections: nil, empty, one name
ConnLists == {NilList, List(<<>>), List(<<"good">>)}

InitIsChanged ==
    /\ gw \in {Gateway(spec, status) :
                spec \in IsChangedSpecs, status \in IsChangedStatuses}
    /\ sts = NoSts
    /\ pod = "Absent"
    /\ conns = <<>>
    /\ last = NoLast
    /\ edits = 0
    /\ ic = IdleIc
    /\ queue = NoQueue

\* changed := r.isChanged(newGw, list); again := r.isChanged(newGw, list)
CallIsChangedTwice ==
    \E list \in ConnLists :
        /\ ic.phase = "idle"
        /\ ic' = [phase |-> "called", list |-> list,
                  first |-> isChanged(gw, list),
                  second |-> isChanged(isChanged(gw, list).g, list)]
        /\ UNCHANGED <<gw, sts, pod, conns, last, edits, queue>>

NextIsChanged == CallIsChangedTwice

SpecIsChanged == InitIsChanged /\ [][NextIsChanged]_vars

----------------------------------------------------------------------------
(* The events that make the gateway controller run: SetupWithManager       *)
(* registers For(VpnGw), Owns(StatefulSet) and Owns(IpsecConn).  An event   *)
(* of the gateway puts its key in the work queue; an event of an owned      *)
(* object puts there the key of the object's controller owner.  Reconcile   *)
(* runs on a key of the queue, and a result that asks for a retry puts the  *)
(* key back.                                                                *)

\* Owns(&vpngwv1.IpsecConn{}): the keys an event of the connection enqueues
OwnerKeys(c) == c.OwnerReferences
\* Owns(&appsv1.StatefulSet{}): the keys an event of the StatefulSet enqueues
StsOwnerKeys(s) == IF s.exists THEN {s.obj.Owner} ELSE {}
\* the keys one Reconcile call of the gateway enqueues: its own retry, the
\* event of the status it wrote, the event of the StatefulSet it wrote
KeysAfterReconcile(r, g0, g1, s0, s1) ==
    (IF r.result # NoRequeue THEN {g0.Name} ELSE {})
        \cup (IF g1 # g0 THEN {g0.Name} ELSE {})
        \cup (IF s1 # s0 THEN StsOwnerKeys(s1) ELSE {})

\* the connections users create beside the gateway, all of them its own
WatchedConns == {GoodConn, NewConn, OwnedConn}
\* the other address a user gives the remote end
MovedRemoteIp(ip) == IF ip = "2.2.2.2" THEN "3.3.3.3" ELSE "2.2.2.2"

ConnEvent(event, c) == [op |-> "ConnEvent", event |-> event, conn |-> c]

\* a user creates a connection
ConnCreated ==
    \E c \in WatchedConns :
        /\ Len(conns) < MaxConns
        /\ c.Name \notin ConnNamesIn(conns)
        /\ conns' = InsertConn(conns, c)
        /\ last' = ConnEvent("create", c)
        /\ queue' = [keys |-> queue.keys \cup OwnerKeys(c),
                     events |-> queue.events \cup {c.Name}]
        /\ UNCHANGED <<gw, sts, pod, edits, ic>>

\* a user updates a connection
ConnUpdated ==
    \E i \in 1..Len(conns) :
        /\ conns' = [conns EXCEPT ![i].Spec.RemotePublicIp = MovedRemoteIp(@)]
        /\ last' = ConnEvent("update", conns'[i])
        /\ queue' = [keys |-> queue.keys \cup OwnerKeys(conns[i]) \cup OwnerKeys(conns'[i]),
                     events |-> queue.events \cup {conns[i].Name}]
        /\ UNCHANGED <<gw, sts, pod, edits, ic>>

\* a user deletes a connection
ConnDeleted ==
    \E i \in 1..Len(conns) :
        /\ conns' = SubSeq(conns, 1, i - 1) \o SubSeq(conns, i + 1, Len(conns))
        /\ last' = ConnEvent("delete", conns[i])
        /\ queue' = [keys |-> queue.keys \cup OwnerKeys(conns[i]),
                     events |-> queue.events \cup {conns[i].Name}]
        /\ UNCHANGED <<gw, sts, pod, edits, ic>>

\* the labeler reconciles a connection; its patch is an update of the connection
LabelConn ==
    \E i \in 0..Len(conns), fail \in ConnFailPoints :
        /\ ipsecConnStep(i, fail)
        /\ queue' = [queue EXCEPT
                        !.keys = @ \cup (IF conns' # conns THEN OwnerKeys(conns'[i]) ELSE {})]

\* the gateway controller takes the gateway's key from the queue and
\* reconciles; a key in the queue is always taken in the end
DispatchVpnGw ==
    /\ gw.Name \in queue.keys
    /\ \E env \in Environments : \E p \in PodAfterSleep(sts, pod) :
          /\ vpnGwStep(env, p)
          /\ queue' = [keys |-> (queue.keys \ {gw.Name})
                                    \cup KeysAfterReconcile(last', gw, gw', sts, sts'),
                       events |-> {}]

\* the gateway has just been created: its key is in the queue
InitTrigger ==
    /\ gw = Gateway(IpsecGwSpec, ZeroStatus)
    /\ sts = NoSts
    /\ pod = "Absent"
    /\ conns = <<>>
    /\ last = NoLast
    /\ edits = 0
    /\ ic = IdleIc
    /\ queue = [keys |-> {GwName}, events |-> {}]

NextTrigger ==
    ConnCreated \/ ConnUpdated \/ ConnDeleted \/ LabelConn \/ DispatchVpnGw \/ PodPhase

SpecTrigger == InitTrigger /\ [][NextTrigger]_vars

----------------------------------------------------------------------------
(* The connections the labeler meets: one connection in the store, with    *)
(* any of the values the labeler reads in its spec and any of the labels   *)
(* a connection carries, reconciled again and again.                       *)

\* the labels a connection carries before the labeler runs: none, those the
\* labeler gives, the label of another gateway, a label of its user
ConnLabels ==
    {EmptyMap, Labelled, VpnGwLabel :> OtherGw, "team" :> "net"}

LabelerConns ==
    {[Conn("any", GwNamespace, labels, vpnGw) EXCEPT
            !.Spec.IkeVersion = ike, !.Spec.Auth = auth,
            !.Spec.RemotePublicIp = rip, !.Spec.RemotePrivateCidrs = rcidrs,
            !.Spec.LocalPrivateCidrs = lcidrs] :
        labels \in ConnLabels, vpnGw \in {"", GwName, OtherGw},
        ike \in {"", "2", "9"}, auth \in {"", "psk", "md5"},
        rip \in {"", "2.2.2.2"}, rcidrs \in {"", "10.2.0.0/16"},
        lcidrs \in {"", "10.1.0.0/16"}}

InitLabeler ==
    /\ gw = Gateway(IpsecGwSpec, Reconciled(IpsecGwSpec).status)
    /\ sts = Reconciled(IpsecGwSpec).sts
    /\ pod = "Running"
    /\ conns \in {<<c>> : c \in LabelerConns}
    /\ last = NoLast
    /\ edits = 0
    /\ ic = IdleIc
    /\ queue = NoQueue

NextLabeler == ReconcileIpsecConn

SpecLabeler == InitLabeler /\ [][NextLabeler]_vars

----------------------------------------------------------------------------
(* The admission webhooks of the connection: the API server passes every   *)
(* create and update of a connection through Default and then through      *)
(* ValidateCreate or ValidateUpdate, and stores the object if the          *)
(* validator returns nil.                                                   *)

\* IpsecConn.Default
Default(c) ==
    [c EXCEPT !.Spec.Auth = IF @ = "" THEN "pubkey" ELSE @,
              !.Spec.IkeVersion = IF @ = "" THEN "2" ELSE @,
              !.Spec.Proposals = IF @ = "" THEN "default" ELSE @]

\* allErrs, one field path per error; the empty list is the nil error
NilErr == <<>>
ErrIf(cond, path) == IF cond THEN <<path>> ELSE <<>>

\* validateIpsecConn without the check of the remote public IP
validateIpsecConn_noRemoteIpCheck(c) ==
    ErrIf(c.Spec.VpnGw = "", "spec.vpnGw")
        \o ErrIf(c.Spec.IkeVersion \notin {"0", "1", "2"}, "spec.ikeVersion")
        \o ErrIf(c.Spec.Auth \notin {"psk", "pubkey"}, "spec.auth")
        \o ErrIf(c.Spec.RemotePrivateCidrs = "", "spec.remotePrivateCidrs")
        \o ErrIf(c.Spec.LocalPublicIp = "", "spec.localPublicIp")
        \o ErrIf(c.Spec.LocalPrivateCidrs = "", "spec.localPrivateCidrs")

\* IpsecConn.validateIpsecConn; the error of the remote public IP carries
\* the path of the local one
validateIpsecConn(c) ==
    ErrIf(c.Spec.VpnGw = "", "spec.vpnGw")
        \o ErrIf(c.Spec.IkeVersion \notin {"0", "1", "2"}, "spec.ikeVersion")
        \o ErrIf(c.Spec.Auth \notin {"psk", "pubkey"}, "spec.auth")
        \o ErrIf(c.Spec.RemotePublicIp = "", "spec.localPublicIp")
        \o ErrIf(c.Spec.RemotePrivateCidrs = "", "spec.remotePrivateCidrs")
        \o ErrIf(c.Spec.LocalPublicIp = "", "spec.localPublicIp")
        \o ErrIf(c.Spec.LocalPrivateCidrs = "", "spec.localPrivateCidrs")

ValidateCreate(c) == validateIpsecConn(c)

\* ValidateUpdate without the comparison with the old object
ValidateUpdate_noOldCheck(c, old) == validateIpsecConn(c)

ValidateUpdate(c, old) ==
    IF validateIpsecConn(c) # NilErr THEN validateIpsecConn(c)
    ELSE ErrIf(old.Spec.VpnGw # "" /\ old.Spec.VpnGw # c.Spec.VpnGw, "spec.vpnGw")

\* the values users write in the fields of a connection
OwnersWritten == {"", GwName, OtherGw}
AuthsWritten == {"", "psk", "md5"}
RemoteIpsWritten == {"", "2.2.2.2", "3.3.3.3"}

\* the connections users ask the API server to create
RequestedConns ==
    {[Conn(name, GwNamespace, EmptyMap, vpnGw) EXCEPT
            !.Spec.Auth = auth, !.Spec.RemotePublicIp = rip] :
        name \in {GoodConn.Name, NewConn.Name}, vpnGw \in OwnersWritten,
        auth \in AuthsWritten, rip \in RemoteIpsWritten}

\* the updates users ask for: the stored connection with one field rewritten
RequestedUpdates(c) ==
    {[c EXCEPT !.Spec.VpnGw = vpnGw] : vpnGw \in OwnersWritten}
        \cup {[c EXCEPT !.Spec.Auth = auth] : auth \in AuthsWritten}
        \cup {[c EXCEPT !.Spec.RemotePublicIp = rip] : rip \in RemoteIpsWritten}

\* a create request: mutating webhook, validating webhook, store
AdmitCreate ==
    \E c \in RequestedConns :
        /\ Len(conns) < MaxConns
        /\ c.Name \notin ConnNamesIn(conns)
        /\ last' = [op |-> "ValidateCreate", new |-> Default(c),
                    err |-> ValidateCreate(Default(c))]
        /\ conns' = IF last'.err = NilErr THEN InsertConn(conns, last'.new) ELSE conns
        /\ UNCHANGED <<gw, sts, pod, edits, ic, queue>>

\* an update request on the i-th connection of the store
AdmitUpdate ==
    \E i \in 1..Len(conns) : \E c \in RequestedUpdates(conns[i]) :
        /\ last' = [op |-> "ValidateUpdate", index |-> i, old |-> conns[i],
                    new |-> Default(c), err |-> ValidateUpdate(Default(c), conns[i])]
        /\ conns' = IF last'.err = NilErr THEN [conns EXCEPT ![i] = last'.new] ELSE conns
        /\ UNCHANGED <<gw, sts, pod, edits, ic, queue>>

InitAdmission ==
    /\ gw = Gateway(IpsecGwSpec, Reconciled(IpsecGwSpec).status)
    /\ sts = Reconciled(IpsecGwSpec).sts
    /\ pod = "Running"
    /\ conns = <<>>
    /\ last = NoLast
    /\ edits = 0
    /\ ic = IdleIc
    /\ queue = NoQueue

NextAdmission == AdmitCreate \/ AdmitUpdate \/ DeleteConn

SpecAdmission == InitAdmission /\ [][NextAdmission]_vars

----------------------------------------------------------------------------
(* The workload's life: beside the controller, other systems annotate the  *)
(* StatefulSet of a reconciled gateway, on the object and on its pod        *)
(* template, while users edit the gateway and the controller regenerates   *)
(* the StatefulSet from the one it finds.                                   *)

\* the annotation kubectl rollout restart writes
RestartedAtAnnotation == "kubectl.kubernetes.io/restartedAt"
\* what other systems write: an annotation of their own, and a value of
\* their own under a key of the controller
AnnotationsWritten ==
    {RestartedAtAnnotation :> "t1", KubeovnIpAddressAnnotation :> "9.9.9.9"}

\* another system annotates the StatefulSet or its pod template
AnnotateSts ==
    \E a \in AnnotationsWritten, onTemplate \in BOOLEAN :
        /\ sts.exists
        /\ sts' = IF onTemplate
                  THEN [sts EXCEPT !.obj.TemplateAnnotations = Overlay(@, a)]
                  ELSE [sts EXCEPT !.obj.Annotations = Overlay(@, a)]
        /\ sts' # sts
        /\ last' = NoLast
        /\ UNCHANGED <<gw, pod, conns, edits, ic, queue>>

InitWorkload ==
    /\ gw = Gateway(SslGwSpec, Reconciled(SslGwSpec).status)
    /\ sts = Reconciled(SslGwSpec).sts
    /\ pod = "Running"
    /\ conns = <<>>
    /\ last = NoLast
    /\ edits = 0
    /\ ic = IdleIc
    /\ queue = NoQueue

NextWorkload == EditGw \/ AnnotateSts \/ ReconcileVpnGw

SpecWorkload == InitWorkload /\ [][NextWorkload]_vars

----------------------------------------------------------------------------
(* The first Reconcile of a gateway: a user has created a gateway of one   *)
(* of the three kinds, no StatefulSet exists yet, and the cluster holds    *)
(* connections of its namespace and of another one.                        *)

\* a labelled connection of the gateway gw1 of the other namespace
OtherNsConn == Conn("otherns", "ns2", Labelled, GwName)

InitFirst ==
    /\ gw \in {Gateway(spec, ZeroStatus) : spec \in {SslGwSpec, IpsecGwSpec, BothGwSpec}}
    /\ sts = NoSts
    /\ pod = "Absent"
    /\ conns \in {<<>>, <<GoodConn>>, <<NewConn>>, <<OtherNsConn>>,
                  <<GoodConn, OtherNsConn>>}
    /\ last = NoLast
    /\ edits = 0
    /\ ic = IdleIc
    /\ queue = NoQueue

NextFirst == ReconcileVpnGw \/ PodPhase

SpecFirst == InitFirst /\ [][NextFirst]_vars

----------------------------------------------------------------------------
(* Properties of the gateway's Reconcile *)

\* the last step was a gateway Reconcile whose handler ran
HandlerRan == last.op = "VpnGw" /\ last.ran
\* ... and returned the sync state
Returned(state) == HandlerRan /\ last.out.state = state
\* the handler issued no write, list, pod read or exec
NoCalls(o) ==
    /\ ~o.created /\ ~o.updated /\ ~o.listed
    /\ ~o.podGot /\ ~o.execed /\ ~o.statusWritten
\* the store holds the gateway and the workload Reconcile began with
StoreUntouched == sts = last.sts /\ gw = last.gw

\* C1: whenever the handler returns Success, the stored workload exists and
\* is the workload statefulSetForVpnGw derives from the gateway's current
\* spec (whatever workload it was given as the old one), after any edits of
\* the spec and any reconciliations.
C1_SuccessWorkloadIsDerivedFromSpec ==
    Returned(SyncStateSuccess) =>
        /\ sts.exists
        /\ \E old \in {NoSts, last.sts, sts} : sts.obj = statefulSetForVpnGw(gw, old)

\* the gateways C2 lists, from its words
Rejectable(g) ==
    \/ g.Spec.Subnet = ""
    \/ g.Status.Subnet # "" /\ g.Spec.Subnet # g.Status.Subnet
    \/ g.Spec.Replicas # 1
    \/ /\ g.Spec.EnableSslVpn
       /\ \/ g.Spec.OvpnCipher = ""
          \/ g.Spec.OvpnProto = ""
          \/ g.Spec.OvpnProto \notin {"udp", "tcp"}
          \/ g.Spec.OvpnPort \notin {443, 1149}
          \/ g.Spec.OvpnSubnetCidr = ""
          \/ g.Spec.SslVpnImage = ""

\* C2: a gateway with an empty subnet, a subnet other than its non-empty
\* status subnet, replicas other than 1, or SSL enabled with an empty cipher,
\* an empty protocol, a protocol other than udp and tcp, a port other than
\* 443 and 1149, an empty client subnet or an empty image makes the handler
\* return ErrorNoRetry with no create, update, list, exec or status write;
\* an empty IP in a gateway none of this holds of is not rejected.
C2_InvalidSpecRejectedWithoutEffect ==
    HandlerRan =>
        /\ Rejectable(last.gw) =>
              /\ last.out.state = SyncStateErrorNoRetry
              /\ NoCalls(last.out)
              /\ StoreUntouched
        /\ ~Rejectable(last.gw) /\ last.gw.Spec.Ip = "" =>
              last.out.state # SyncStateErrorNoRetry

\* a gateway whose only fault is the protocol icmp has been rejected
C2_Witness ==
    /\ Returned(SyncStateErrorNoRetry)
    /\ last.gw.Spec = [SslGwSpec EXCEPT !.OvpnProto = "icmp"]
    /\ last.gw.Status.Subnet = ""

\* C3: once the status subnet the store holds is non-empty no Reconcile
\* changes it, and a Reconcile of a spec whose subnet differs from it returns
\* ErrorNoRetry.
C3_StatusSubnetIsImmutable ==
    (last.op = "VpnGw" /\ last.gw.Status.Subnet # "") =>
        /\ gw.Status.Subnet = last.gw.Status.Subnet
        /\ (last.ran /\ last.gw.Spec.Subnet # last.gw.Status.Subnet) =>
              last.out.state = SyncStateErrorNoRetry

\* a gateway reconciled with subnet1 and edited to subnet2 has been rejected
C3_Witness ==
    /\ Returned(SyncStateErrorNoRetry)
    /\ last.gw.Status.Subnet = "subnet1"
    /\ last.gw.Spec.Subnet = "subnet2"
    /\ gw.Status.Subnet = "subnet1"

\* C4: in both Reconcile functions the sync state decides the requeue: Error
\* asks for a retry (the gateway's after the fixed interval with the retry
\* error, the connection's with the retry error), ErrorNoRetry and Success
\* return no requeue and a nil error.
C4_SyncStateDecidesRequeue ==
    /\ HandlerRan =>
          last.result =
              IF last.out.state = SyncStateError
              THEN [requeueAfter |-> RequeueAfterSeconds, err |-> "errRetry"]
              ELSE [requeueAfter |-> 0, err |-> "nil"]
    /\ (last.op = "IpsecConn" /\ last.ran) =>
          last.result =
              IF last.out.state = SyncStateError
              THEN [requeueAfter |-> 0, err |-> "errRetry"]
              ELSE [requeueAfter |-> 0, err |-> "nil"]

\* a gateway Reconcile whose handler returned Error asked for the retry
C4_Witness ==
    /\ Returned(SyncStateError)
    /\ last.result.requeueAfter = RequeueAfterSeconds
    /\ last.result.err = "errRetry"

\* the gateway was not found when Reconcile fetched it
GwNotFound == last.op = "VpnGw" /\ ~last.gw.exists /\ last.result.err # "getError"

\* C5: a Reconcile that does not find the gateway returns no requeue and a
\* nil error, and creates or updates no workload, lists no connection, runs
\* no command and writes no status.
C5_NotFoundIsNoOp ==
    GwNotFound =>
        /\ last.result = [requeueAfter |-> 0, err |-> "nil"]
        /\ NoCalls(last.out)
        /\ StoreUntouched

\* a deleted gateway has been reconciled
C5_Witness == GwNotFound /\ ~last.ran /\ last.result.requeueAfter = 0

----------------------------------------------------------------------------
(* Properties of isChanged *)

\* the fields C6 lists
ComparedFields ==
    {"Cpu", "Memory", "QoSBandwidth", "Ip", "Replicas", "EnableSslVpn",
     "OvpnCipher", "OvpnProto", "OvpnPort", "OvpnSubnetCidr", "SslVpnImage",
     "EnableIpsecVpn", "IpsecVpnImage", "Selector", "Tolerations", "Affinity"}

\* C6: for each field isChanged compares (CPU, memory, bandwidth, IP,
\* replicas, the SSL toggle and its five dependent fields, the IPsec toggle
\* and its image, selector, tolerations, affinity), if spec and status differ
\* in it on entry, isChanged returns true and the status value equals the
\* spec value on return.
C6_DifferingFieldIsSynced ==
    ic.phase = "called" =>
        \A f \in ComparedFields :
            gw.Spec[f] # gw.Status[f] =>
                /\ ic.first.changed
                /\ ic.first.g.Status[f] = ic.first.g.Spec[f]

\* the second call left the object as the first call left it
SecondCallMutatesNothing == ic.second.g = ic.first.g

\* C7 as stated: the second call on the same object with the same list
\* returns false and mutates nothing when IPsec is disabled, and returns true
\* when IPsec is enabled.
C7_SecondCallAsStated ==
    ic.phase = "called" =>
        IF gw.Spec.EnableIpsecVpn
        THEN ic.second.changed
        ELSE ~ic.second.changed /\ SecondCallMutatesNothing

\* C7: the second call on the same object with the same list returns true
\* when IPsec is enabled and the list is not nil; it returns false and
\* mutates nothing when IPsec is disabled, and when the list is nil.
C7_SecondCallReportsSuppliedList ==
    ic.phase = "called" =>
        IF gw.Spec.EnableIpsecVpn /\ ~ic.list.nil
        THEN ic.second.changed
        ELSE ~ic.second.changed /\ SecondCallMutatesNothing

\* IPsec enabled, a list the object already holds: the second call, which
\* mutates nothing, returns true
C7_Witness ==
    /\ ic.phase = "called"
    /\ gw.Spec.EnableIpsecVpn
    /\ ic.list = List(<<"good">>)
    /\ ic.first.g.Spec.IpsecConnections = ic.list
    /\ ic.second.changed
    /\ SecondCallMutatesNothing

----------------------------------------------------------------------------
(* Properties of the connection string *)

\* the last step was a gateway Reconcile that formatted the listed connections
Aggregated == HandlerRan /\ last.out.aggregated
\* the pieces of one record: ten fields, nine spaces, one comma
RecordPieces == 20
\* the ten fields of the i-th record of the string t
RecordAt(t, i) == [k \in 1..10 |-> t[RecordPieces * (i - 1) + 2 * k - 1]]
\* the names of the records of t
RecordNames(t) == {t[i] : i \in {j \in 1..Len(t) : j % RecordPieces = 1}}
\* the ten fields of a connection, in the order C9 gives
TenFields(c) ==
    <<c.Name, c.Spec.Auth, c.Spec.IkeVersion, c.Spec.Proposals, c.Spec.LocalCN,
      c.Spec.LocalPublicIp, c.Spec.LocalPrivateCidrs, c.Spec.RemoteCN,
      c.Spec.RemotePublicIp, c.Spec.RemotePrivateCidrs>>
\* the connection carries the discovery label of the gateway
HasLabelOf(c, g) == "vpn-gw" \in DOMAIN c.Labels /\ c.Labels["vpn-gw"] = g.Name
\* the connections of the store whose label and owner are the gateway
OwnedConns == SelectSeq(conns, LAMBDA c : HasLabelOf(c, gw) /\ c.Spec.VpnGw = gw.Name)

\* C8: every record of the string serialized for a gateway holds the name of
\* a connection of the store that carries the label vpn-gw = the gateway's
\* name and whose spec.vpnGw is the gateway's name; no connection whose
\* spec.vpnGw is empty or another name has a record.
C8_OnlyOwnedConnectionsSerialized ==
    Aggregated =>
        /\ \A name \in RecordNames(last.out.connections) :
              \E i \in 1..Len(conns) :
                  /\ conns[i].Name = name
                  /\ HasLabelOf(conns[i], gw)
                  /\ conns[i].Spec.VpnGw = gw.Name
        /\ \A i \in 1..Len(conns) :
              (conns[i].Spec.VpnGw = "" \/ conns[i].Spec.VpnGw # gw.Name) =>
                  conns[i].Name \notin RecordNames(last.out.connections)

\* a labelled connection of another gateway was listed beside one of the
\* gateway, and the string holds the record of the latter only
C8_Witness ==
    /\ Aggregated
    /\ \E i \in 1..Len(conns) :
          HasLabelOf(conns[i], gw) /\ conns[i].Spec.VpnGw = OtherGw
    /\ RecordNames(last.out.connections) = {"good"}

\* C9: with n listed connections whose owner matches, the string is n
\* records in the order of the list, each the ten fields name, auth, IKE
\* version, proposals, local CN, local public IP, local private CIDRs, remote
\* CN, remote public IP, remote private CIDRs with a space between two fields
\* and a comma at the end; with n = 0 it is empty.
C9_StringIsTheOwnedRecordsInOrder ==
    Aggregated =>
        LET t == last.out.connections
        IN  /\ Len(t) = RecordPieces * Len(OwnedConns)
            /\ \A i \in 1..Len(OwnedConns) :
                  /\ RecordAt(t, i) = TenFields(OwnedConns[i])
                  /\ \A k \in 1..9 : t[RecordPieces * (i - 1) + 2 * k] = " "
                  /\ t[RecordPieces * i] = ","

\* two connections of the gateway have been serialized
C9_Witness ==
    /\ Aggregated
    /\ Len(OwnedConns) = 2
    /\ Len(last.out.connections) = 2 * RecordPieces

\* a required field of the connection is empty
Malformed(c) ==
    \/ c.Spec.Auth = "" \/ c.Spec.IkeVersion = "" \/ c.Spec.Proposals = ""
    \/ c.Spec.LocalCN = "" \/ c.Spec.RemoteCN = ""
    \/ c.Spec.LocalPublicIp = "" \/ c.Spec.RemotePublicIp = ""
    \/ c.Spec.LocalPrivateCidrs = "" \/ c.Spec.RemotePrivateCidrs = ""

\* C10: a connection with an empty required field (auth, IKE version,
\* proposals, local or remote CN, local or remote public IP, local or remote
\* private CIDRs) has no record in the string passed to the refresh command.
C10_MalformedConnectionNotSerialized ==
    (HandlerRan /\ last.out.execed) =>
        \A i \in 1..Len(conns) :
            Malformed(conns[i]) => conns[i].Name \notin RecordNames(Tail(last.out.cmd))

----------------------------------------------------------------------------
(* Properties of the refresh *)

\* C11: the refresh command is executed only if IPsec is enabled in the
\* gateway spec, the connection string is not empty, the pod was found and
\* its phase is Running; it is never executed with the pod absent or in
\* another phase.
C11_RefreshOnlyInRunningPod ==
    (HandlerRan /\ last.out.execed) =>
        /\ last.gw.Spec.EnableIpsecVpn
        /\ last.out.connections # <<>>
        /\ last.out.podGot /\ ~last.out.podErr
        /\ last.out.podSeen = "Running"
        /\ pod = "Running"

\* the command has been executed in the running pod of an IPsec gateway
C11_Witness ==
    /\ Returned(SyncStateSuccess)
    /\ last.out.execed
    /\ last.gw.Spec.EnableIpsecVpn
    /\ pod = "Running"

\* C12: with IPsec enabled and a non-empty connection string, a failed pod
\* lookup or a pod in a phase other than Running makes the handler return
\* Error, which Reconcile retries, with no command executed and no status
\* written.
C12_PodNotReadyIsRetried ==
    (/\ HandlerRan
     /\ last.gw.Spec.EnableIpsecVpn
     /\ last.out.connections # <<>>
     /\ last.out.podErr \/ pod # "Running") =>
        /\ last.out.state = SyncStateError
        /\ last.result.err = "errRetry"
        /\ ~last.out.execed
        /\ ~last.out.statusWritten
        /\ gw.Status = last.gw.Status

\* the pod of an IPsec gateway with a connection was found pending
C12_Witness ==
    /\ Returned(SyncStateError)
    /\ last.out.connections # <<>>
    /\ last.out.podGot /\ ~last.out.podErr
    /\ pod = "Pending"

\* C13: a refresh command that wrote anything, on the error stream or on the
\* standard stream, makes the handler return Error and write no status.
C13_AnyOutputFailsTheRefresh ==
    (HandlerRan /\ last.out.execed /\ (last.out.exec.stdout \/ last.out.exec.stderr)) =>
        /\ last.out.state = SyncStateError
        /\ ~last.out.statusWritten

\* the names of the records of the string t, in their order
SerializedNames(t) == [i \in 1..(Len(t) \div RecordPieces) |-> t[RecordPieces * (i - 1) + 1]]

\* C14: after a Success that followed a refresh, the connection list the
\* status holds is the list of the names serialized into the command.
C14_StatusListsTheSerializedNames ==
    (Returned(SyncStateSuccess) /\ last.gw.Spec.EnableIpsecVpn /\ last.out.execed) =>
        /\ ~gw.Status.IpsecConnections.nil
        /\ gw.Status.IpsecConnections.items = SerializedNames(Tail(last.out.cmd))

----------------------------------------------------------------------------
(* Properties of the events *)

\* C15: every creation, update or deletion of a connection of the gateway
\* leads to a Reconcile of the gateway: as long as no Reconcile of the gateway
\* has followed the event, the gateway's key is in the work queue.
C15_ConnectionEventReconcilesGateway ==
    queue.events # {} => gw.Name \in queue.keys


----------------------------------------------------------------------------
(* Properties of the labeler *)

\* the last step was a connection Reconcile whose handler ran
LabelerRan == last.op = "IpsecConn" /\ last.ran
\* the connection the labeler reconciled, as the store holds it now
Reconciled_conn == conns[last.index]

\* C16: after a connection Reconcile that returns Success, the label vpn-gw
\* of the connection in the store is its spec.vpnGw.
C16_SuccessLabelIsTheOwner ==
    (LabelerRan /\ last.out.state = SyncStateSuccess) =>
        /\ "vpn-gw" \in DOMAIN Reconciled_conn.Labels
        /\ Reconciled_conn.Labels["vpn-gw"] = Reconciled_conn.Spec.VpnGw

\* a connection of gw2 that carried the label of gw1 has been relabelled
C16_Witness ==
    /\ LabelerRan /\ last.out.state = SyncStateSuccess
    /\ last.read.Labels = ("vpn-gw" :> "gw1")
    /\ last.read.Spec.VpnGw = "gw2"
    /\ Reconciled_conn.Labels["vpn-gw"] = "gw2"

\* C17: a connection with an empty spec.vpnGw makes the labeler return
\* ErrorNoRetry without a label patch: the connection in the store is as it
\* was read, and Reconcile returns no requeue and a nil error.
C17_EmptyOwnerFailsTerminally ==
    (LabelerRan /\ last.read.Spec.VpnGw = "") =>
        /\ last.out.state = SyncStateErrorNoRetry
        /\ ~last.out.patched
        /\ Reconciled_conn = last.read
        /\ last.result = [requeueAfter |-> 0, err |-> "nil"]

\* a connection with no owner and every other field given has been rejected
C17_Witness ==
    /\ LabelerRan
    /\ last.read.Spec.VpnGw = ""
    /\ last.read.Spec.RemotePublicIp # ""
    /\ last.read.Spec.RemotePrivateCidrs # ""
    /\ last.read.Spec.LocalPrivateCidrs # ""
    /\ last.out.state = SyncStateErrorNoRetry

\* C18 as stated: the owning gateway is the only mandatory field: for a
\* connection with a non-empty spec.vpnGw, whatever its other fields, the
\* labeler does not return ErrorNoRetry and issues the label patch.
C18_OnlyOwnerIsMandatory ==
    (LabelerRan /\ last.read.Spec.VpnGw # "") =>
        /\ last.out.state # SyncStateErrorNoRetry
        /\ last.out.patched

\* the fields the labeler requires
MandatoryGiven(c) ==
    /\ c.Spec.VpnGw # ""
    /\ c.Spec.RemotePublicIp # ""
    /\ c.Spec.RemotePrivateCidrs # ""
    /\ c.Spec.LocalPrivateCidrs # ""

\* C18: the mandatory fields of the labeler are the owning gateway, the
\* remote public IP, the remote private CIDRs and the local private CIDRs:
\* for a connection with all four non-empty, whatever its IKE version and
\* auth mode, the labeler does not return ErrorNoRetry and issues the label
\* patch; with one of the four empty it returns ErrorNoRetry and issues none.
C18_FourFieldsAreMandatory ==
    LabelerRan =>
        IF MandatoryGiven(last.read)
        THEN last.out.state # SyncStateErrorNoRetry /\ last.out.patched
        ELSE last.out.state = SyncStateErrorNoRetry /\ ~last.out.patched

\* a connection with an unknown IKE version and auth mode has been labelled
C18_Witness ==
    /\ LabelerRan
    /\ last.read.Spec.IkeVersion = "9"
    /\ last.read.Spec.Auth = "md5"
    /\ MandatoryGiven(last.read)
    /\ last.out.patched
    /\ last.out.state = SyncStateSuccess


----------------------------------------------------------------------------
(* Properties of the admission webhooks *)

\* every connection that stays in the store over the step keeps its owner
OwnerKept ==
    \A i \in 1..Len(conns), j \in 1..Len(conns') :
        conns[i].Name = conns'[j].Name =>
            conns'[j].Spec.VpnGw = conns[i].Spec.VpnGw

\* C19: over any sequence of admitted creates and updates, every connection
\* of the store has a non-empty spec.vpnGw, no step changes the spec.vpnGw
\* of a connection, and an update that would change it is rejected and
\* leaves the store as it was.
C19_OwnerIsSetAndImmutable ==
    /\ [](/\ \A i \in 1..Len(conns) : conns[i].Spec.VpnGw # ""
          /\ (last.op = "ValidateUpdate"
                /\ last.new.Spec.VpnGw # last.old.Spec.VpnGw) =>
                    /\ last.err # NilErr
                    /\ conns[last.index] = last.old)
    /\ [][OwnerKept]_vars

\* an update that names another gateway and is valid otherwise was rejected
C19_Witness ==
    /\ last.op = "ValidateUpdate"
    /\ last.old.Spec.VpnGw = "gw1"
    /\ last.new.Spec.VpnGw = "gw2"
    /\ validateIpsecConn(last.new) = NilErr
    /\ last.err = <<"spec.vpnGw">>
    /\ conns[last.index].Spec.VpnGw = "gw1"


----------------------------------------------------------------------------
(* Properties of the regenerated workload *)

\* the four keys of the controller
ControllerKeys ==
    {"ovn.kubernetes.io/logical_switch", "ovn.kubernetes.io/ip_address",
     "ovn.kubernetes.io/ingress_rate", "ovn.kubernetes.io/egress_rate"}
\* the last step was a gateway Reconcile that replaced the workload it found
\* by the regenerated one
Regenerated ==
    /\ HandlerRan /\ last.sts.exists /\ last.out.updated
    /\ last.out.err # "failed to update the statefulset"

\* C20: the pod-template annotations of the regenerated workload hold every
\* annotation of the previous workload's pod template whose key is not one
\* of the four controller keys, with its value, and under the four
\* controller keys the subnet, the IP and twice the bandwidth of the spec.
C20_TemplateAnnotationsPreserved ==
    Regenerated =>
        LET old == last.sts.obj.TemplateAnnotations
            new == sts.obj.TemplateAnnotations
        IN  /\ \A k \in (DOMAIN old) \ ControllerKeys :
                  k \in DOMAIN new /\ new[k] = old[k]
            /\ ControllerKeys \subseteq DOMAIN new
            /\ new["ovn.kubernetes.io/logical_switch"] = last.gw.Spec.Subnet
            /\ new["ovn.kubernetes.io/ip_address"] = last.gw.Spec.Ip
            /\ new["ovn.kubernetes.io/ingress_rate"] = last.gw.Spec.QoSBandwidth
            /\ new["ovn.kubernetes.io/egress_rate"] = last.gw.Spec.QoSBandwidth


----------------------------------------------------------------------------
(* Properties of the first Reconcile *)

\* the last step was a Reconcile of a valid gateway that found no workload
FirstReconcile ==
    /\ HandlerRan /\ ~last.sts.exists
    /\ last.out.state # SyncStateErrorNoRetry
    /\ last.out.err # "failed to get old statefulset"

\* C21 as stated: the Reconcile of a valid gateway that finds no workload
\* issues one create and no update; with IPsec disabled it attempts no
\* refresh, and with IPsec enabled it returns Success only after it saw the
\* pod Running.
C21_FirstReconcileAsStated ==
    FirstReconcile =>
        /\ last.out.created /\ ~last.out.updated
        /\ ~last.gw.Spec.EnableIpsecVpn => ~last.out.execed
        /\ (last.gw.Spec.EnableIpsecVpn /\ last.out.state = SyncStateSuccess) =>
              last.out.podGot /\ last.out.podSeen = "Running"

\* C21: the Reconcile of a valid gateway that finds no workload issues one
\* create and no update, and the store holds the workload derived from the
\* spec unless the create failed; with IPsec disabled, or enabled with an
\* empty connection string, it looks up no pod, attempts no refresh and
\* returns Success unless the create, the listing or the status write
\* failed; with IPsec enabled and a connection string it returns Success
\* only after it saw the pod Running and ran the refresh.
C21_FirstReconcileCreates ==
    FirstReconcile =>
        /\ last.out.created /\ ~last.out.updated
        /\ last.out.err # "failed to create the new statefulset" =>
              sts.exists /\ sts.obj = statefulSetForVpnGw(last.gw, NoSts)
        /\ (~last.gw.Spec.EnableIpsecVpn \/ last.out.connections = <<>>) =>
              /\ ~last.out.podGot /\ ~last.out.execed
              /\ last.out.err \notin {"failed to create the new statefulset",
                                       "failed to list ipsec connections",
                                       "failed to update vpn gw status"} =>
                    last.out.state = SyncStateSuccess
        /\ ~last.gw.Spec.EnableIpsecVpn => ~last.out.listed
        /\ (last.gw.Spec.EnableIpsecVpn /\ last.out.connections # <<>>
                /\ last.out.state = SyncStateSuccess) =>
              last.out.podGot /\ last.out.podSeen = "Running" /\ last.out.execed

\* the first Reconcile of an IPsec gateway without connections has returned
\* Success while the pod was pending, without looking at it
C21_Witness ==
    /\ FirstReconcile
    /\ last.gw.Spec.EnableIpsecVpn
    /\ last.out.created
    /\ last.out.state = SyncStateSuccess
    /\ ~last.out.podGot
    /\ pod = "Pending"


----------------------------------------------------------------------------
(* Properties of the order of the steps *)

\* the refresh command failed: it returned an error or wrote something
RefreshFailed ==
    last.out.execed /\ (last.out.exec.err \/ last.out.exec.stdout \/ last.out.exec.stderr)
\* a step before the status write failed: the workload's create or update,
\* the listing, the pod lookup, the refresh
EarlierStepFailed ==
    \/ last.out.err \in {"failed to get old statefulset",
                          "failed to create the new statefulset",
                          "failed to update the statefulset",
                          "failed to list ipsec connections",
                          "failed to get vpn gw pod", "pod is not running now",
                          "failed to ExecuteCommandInContainer"}
    \/ RefreshFailed

\* C22: in one Reconcile the status is written only after validation, the
\* workload's create or update and, with IPsec, the listing, the pod lookup
\* and the refresh have all succeeded; when one of them fails no status is
\* written and the status the store holds is the one Reconcile began with.
C22_StatusWrittenLastAndOnlyOnSuccess ==
    HandlerRan =>
        /\ last.out.statusWritten =>
              /\ last.out.state # SyncStateErrorNoRetry
              /\ ~EarlierStepFailed
              /\ last.out.created \/ last.out.updated \/ last.sts.exists
        /\ EarlierStepFailed =>
              /\ ~last.out.statusWritten
              /\ gw.Status = last.gw.Status


----------------------------------------------------------------------------
(* Properties of the retries *)

\* the fields the status mirrors for a spec: those of the features the spec
\* enables, and those every gateway has
MirroredFields(spec) ==
    {"Subnet", "Cpu", "Memory", "QoSBandwidth", "Ip", "Replicas", "EnableSslVpn",
     "EnableIpsecVpn", "Selector", "Tolerations", "Affinity"}
        \cup (IF spec.EnableSslVpn
              THEN {"OvpnCipher", "OvpnProto", "OvpnPort", "OvpnSubnetCidr", "SslVpnImage"}
              ELSE {})
        \cup (IF spec.EnableIpsecVpn THEN {"IpsecVpnImage"} ELSE {})
StatusMirrorsSpec(g) == \A f \in MirroredFields(g.Spec) : g.Status[f] = g.Spec[f]

\* C23: the retries of a valid gateway end in a Success with the status
\* mirroring the spec: every Reconcile that returns Error asks for another
\* one (no budget makes it terminal), a Reconcile in which no call fails
\* returns Success, and after a Success, which asks for no other Reconcile,
\* the status the store holds mirrors the spec.
C23_RetriedUntilStatusMirrorsSpec ==
    (HandlerRan /\ last.out.state # SyncStateErrorNoRetry) =>
        /\ last.out.state = SyncStateError =>
              last.result = [requeueAfter |-> RequeueAfterSeconds, err |-> "errRetry"]
        /\ last.out.err = "nil" => last.out.state = SyncStateSuccess
        /\ last.out.state = SyncStateSuccess => StatusMirrorsSpec(gw)


----------------------------------------------------------------------------
(* Properties of the workload after edits *)

\* the workload carries the CPU, memory, bandwidth and IP of the gateway's spec
WorkloadFollowsSpec ==
    /\ \A i \in 1..Len(sts.obj.Containers) :
          /\ sts.obj.Containers[i].Requests = ResourceList(gw)
          /\ sts.obj.Containers[i].Limits = ResourceList(gw)
    /\ sts.obj.TemplateAnnotations["ovn.kubernetes.io/ip_address"] = gw.Spec.Ip
    /\ sts.obj.TemplateAnnotations["ovn.kubernetes.io/ingress_rate"] = gw.Spec.QoSBandwidth
    /\ sts.obj.TemplateAnnotations["ovn.kubernetes.io/egress_rate"] = gw.Spec.QoSBandwidth

\* C24: after a Reconcile that returns Success the workload carries the CPU,
\* memory, bandwidth and IP of the spec, whatever edits and failed
\* Reconciles came before (a workload update followed by a failed status
\* write, and the field edited back to the value the status holds).
C24_WorkloadFollowsComparedFields ==
    Returned(SyncStateSuccess) => sts.exists /\ WorkloadFollowsSpec


----------------------------------------------------------------------------
(* Properties of the emptied connection set *)

\* the names of the connections the status lists
StatusNames == {gw.Status.IpsecConnections.items[i] :
                    i \in 1..Len(gw.Status.IpsecConnections.items)}

\* C25: after a Reconcile of an IPsec gateway that returns Success with the
\* pod Running, the status lists no connection that no longer exists, and if
\* the status listed connections when the Reconcile began and none is left
\* the refresh command was run with the empty list.
C25_EmptiedSetIsRefreshed ==
    (Returned(SyncStateSuccess) /\ last.gw.Spec.EnableIpsecVpn /\ pod = "Running") =>
        /\ StatusNames \subseteq ConnNamesIn(conns)
        /\ (conns = <<>> /\ last.gw.Status.IpsecConnections.items # <<>>) =>
              last.out.execed /\ Tail(last.out.cmd) = <<>>


----------------------------------------------------------------------------
(* Properties of the labeler's patch *)

\* C26: a connection Reconcile leaves the spec of the connection as it read
\* it, and every label the connection carried other than vpn-gw is still
\* there with its value.
C26_PatchTouchesOnlyTheDiscoveryLabel ==
    LabelerRan =>
        /\ Reconciled_conn.Spec = last.read.Spec
        /\ \A k \in (DOMAIN last.read.Labels) \ {"vpn-gw"} :
              /\ k \in DOMAIN Reconciled_conn.Labels
              /\ Reconciled_conn.Labels[k] = last.read.Labels[k]


----------------------------------------------------------------------------
(* Properties of the namespaces *)

\* the connections of the store that are not in the gateway's namespace
ForeignNames ==
    {conns[i].Name : i \in {j \in 1..Len(conns) : conns[j].Namespace # gw.Namespace}}

\* C27: no connection of another namespace is serialized into the refresh
\* command of the gateway or named in the status the gateway's Reconcile
\* writes.
C27_OnlyOwnNamespaceAggregated ==
    HandlerRan =>
        /\ RecordNames(last.out.connections) \cap ForeignNames = {}
        /\ last.out.execed => RecordNames(Tail(last.out.cmd)) \cap ForeignNames = {}
        /\ last.out.statusWritten => StatusNames \cap ForeignNames = {}


----------------------------------------------------------------------------
(* Properties of the two validations *)

\* C28: a connection the webhook's validateIpsecConn accepts is accepted by
\* the labeler: its Reconcile does not return ErrorNoRetry, issues the label
\* patch, and when the patch succeeds the connection carries the label of
\* its owner.
C28_LabelerNoStricterThanWebhook ==
    (LabelerRan /\ validateIpsecConn(last.read) = NilErr) =>
        /\ last.out.state # SyncStateErrorNoRetry
        /\ last.out.patched
        /\ last.out.state = SyncStateSuccess =>
              /\ "vpn-gw" \in DOMAIN Reconciled_conn.Labels
              /\ Reconciled_conn.Labels["vpn-gw"] = last.read.Spec.VpnGw

\* a connection the webhook accepts, not labelled yet, has been labelled
C28_Witness ==
    /\ LabelerRan
    /\ validateIpsecConn(last.read) = NilErr
    /\ "vpn-gw" \notin DOMAIN last.read.Labels
    /\ last.out.state = SyncStateSuccess
    /\ Reconciled_conn.Labels["vpn-gw"] = last.read.Spec.VpnGw

====
